---- MODULE Spec2Model ----
(***************************************************************************)
(* Density-matrix models of qmc/tf/models.py: batch accumulation of outer  *)
(* products into a weight tensor W with a sample counter, the one-off      *)
(* normalisation in fit(), the forward pass of the multi-class wrappers,   *)
(* the eigen-parametrised (SGD) models and get_config().                   *)
(*                                                                         *)
(* Numbers.  Tensors hold exact Gaussian rationals: a scalar is            *)
(* [d, v] = v/d with v = <<re, im>>, a vector or matrix is [d, m] with one *)
(* common denominator d >= 0, kept in lowest terms.  A denominator of 0 is *)
(* the IEEE outcome of dividing by zero: an entry 0/0 is NaN, an entry x/0 *)
(* with x # 0 is an infinity.  Floating-point rounding is not modelled.    *)
(***************************************************************************)
EXTENDS Integers, Sequences, FiniteSets, TLC

(***************************************************************************)
(* Bounds of the model.                                                    *)
(***************************************************************************)
\* samples that pass through train_step over the life of one model instance
MaxSamples == 3
\* fit() calls on one model instance
MaxFits == 2
\* optimizer steps on one eigen-parametrised model instance
MaxOptSteps == 2

(***************************************************************************)
(* Complex arithmetic on pairs <<re, im>> of integers.                     *)
(***************************************************************************)
CZero == <<0, 0>>

CAdd(a, b) == <<a[1] + b[1], a[2] + b[2]>>

CMul(a, b) == <<a[1] * b[1] - a[2] * b[2], a[1] * b[2] + a[2] * b[1]>>

CScale(k, a) == <<k * a[1], k * a[2]>>

\* tf.math.conj
conj(a) == <<a[1], 0 - a[2]>>

Abs(x) == IF x < 0 THEN 0 - x ELSE x

RECURSIVE GCD(_, _)
GCD(a, b) == IF b = 0 THEN a ELSE GCD(b, a % b)

RECURSIVE SeqSum(_)
SeqSum(s) == IF s = <<>> THEN 0 ELSE Head(s) + SeqSum(Tail(s))

RECURSIVE CSum(_)
CSum(s) == IF s = <<>> THEN CZero ELSE CAdd(Head(s), CSum(Tail(s)))

\* gcd of the absolute values of every component of a sequence of pairs
RECURSIVE GcdEntries(_, _)
GcdEntries(s, g) ==
    IF s = <<>> THEN g
    ELSE GcdEntries(Tail(s), GCD(GCD(g, Abs(Head(s)[1])), Abs(Head(s)[2])))

RECURSIVE Flatten(_)
Flatten(rows) == IF rows = <<>> THEN <<>> ELSE Head(rows) \o Flatten(Tail(rows))

(***************************************************************************)
(* Tensors over a common denominator.                                      *)
(***************************************************************************)
\* lowest terms of the matrix m/d
Mat(d, m) ==
    LET g == GcdEntries(Flatten(m), d)
    IN  IF g = 0 THEN [d |-> 0, m |-> m]
        ELSE [d |-> d \div g,
              m |-> [i \in DOMAIN m |->
                       [j \in DOMAIN m[i] |-> <<m[i][j][1] \div g, m[i][j][2] \div g>>]]]

\* lowest terms of the scalar v/d
Num(d, v) ==
    LET g == GcdEntries(<<v>>, d)
    IN  IF g = 0 THEN [d |-> 0, v |-> v]
        ELSE [d |-> d \div g, v |-> <<v[1] \div g, v[2] \div g>>]

\* tf.zeros((n, n)), the value every weight tensor is created with
Zeros(n) == [d |-> 1, m |-> [i \in 1..n |-> [j \in 1..n |-> CZero]]]

\* the factors that bring a/da and b/db over their least common
\* denominator den; a zero denominator absorbs the other
Common(da, db) ==
    LET g == GCD(da, db)
    IN  IF g = 0 THEN [den |-> 0, fa |-> 1, fb |-> 1]
        ELSE [den |-> (da \div g) * db, fa |-> db \div g, fb |-> da \div g]

\* A + B
MatAdd(A, B) ==
    LET c == Common(A.d, B.d)
    IN  Mat(c.den,
            [i \in DOMAIN A.m |-> [j \in DOMAIN A.m[i] |->
                CAdd(CScale(c.fa, A.m[i][j]), CScale(c.fb, B.m[i][j]))]])

\* k * A for an integer k
MatScale(k, A) ==
    Mat(A.d, [i \in DOMAIN A.m |-> [j \in DOMAIN A.m[i] |-> CScale(k, A.m[i][j])]])

\* A / n for a non-negative integer n, as float division does it: a zero n
\* leaves NaN where A is 0 and an infinity elsewhere
MatDiv(A, n) == Mat(A.d * n, A.m)

IsFinite(A) == A.d # 0

IsNaN(A) == A.d = 0 /\ \A i \in DOMAIN A.m : \A j \in DOMAIN A.m[i] : A.m[i][j] = CZero

RECURSIVE MatSum(_, _)
MatSum(s, n) == IF s = <<>> THEN Zeros(n) ELSE MatAdd(Head(s), MatSum(Tail(s), n))

(***************************************************************************)
(* Feature vectors [d, v] = v/d.  The feature maps fm_x, fm_y are supplied *)
(* by the caller; an input is modelled by the feature vector it maps to.   *)
(***************************************************************************)
VecConj(a) == [d |-> a.d, v |-> [i \in DOMAIN a.v |-> conj(a.v[i])]]

\* real feature vectors: (1, 0), (3/5, 4/5) of unit norm, and (1, 1)
RealFeats ==
    { [d |-> 1, v |-> << <<1, 0>>, <<0, 0>> >>],
      [d |-> 5, v |-> << <<3, 0>>, <<4, 0>> >>],
      [d |-> 1, v |-> << <<1, 0>>, <<1, 0>> >>] }

\* complex feature vectors: (1, 0), (3/5, 4i/5) of unit norm, and (1, i)
ComplexFeats ==
    { [d |-> 1, v |-> << <<1, 0>>, <<0, 0>> >>],
      [d |-> 5, v |-> << <<3, 0>>, <<0, 4>> >>],
      [d |-> 1, v |-> << <<1, 0>>, <<0, 1>> >>] }

\* the output feature map of the joint models: the one-hot vector of label y
fm_y(y) == [d |-> 1, v |-> [i \in 1..2 |-> IF i = y + 1 THEN <<1, 0>> ELSE CZero]]

(***************************************************************************)
(* layers.CrossProduct: the outer product of two vectors.                  *)
(***************************************************************************)
CrossProduct(a, b) ==
    Mat(a.d * b.d, [i \in DOMAIN a.v |-> [j \in DOMAIN b.v |-> CMul(a.v[i], b.v[j])]])

\* the (dim_x, dim_y) tensor of cp1 as the vector of its entries, row by row
Flat(A) == [d |-> A.d, v |-> Flatten(A.m)]

(***************************************************************************)
(* The model classes.                                                      *)
(***************************************************************************)
AccumKinds ==
    {"QMClassifier", "QMDensity", "ComplexQMDensity", "DMKDClassifier",
     "ComplexDMKDClassifier", "ComplexDMKDRegressor", "QMRegressor"}

JointKinds == {"QMClassifier", "QMRegressor"}

WrapperKinds == {"DMKDClassifier", "ComplexDMKDClassifier"}

ComplexKinds == {"ComplexQMDensity", "ComplexDMKDClassifier", "ComplexDMKDRegressor"}

\* num_classes, at its default
NumClasses == 2

Feats(k) == IF k \in ComplexKinds THEN ComplexFeats ELSE RealFeats

\* the feature dimension of one estimator: dim_x, or dim_x * dim_y when joint
Dim(k) == IF k \in JointKinds THEN 4 ELSE 2

\* the estimators whose weights[0] the model writes: one per class in the
\* wrappers, qmd and qmr in the regressor, one otherwise
NumEst(k) ==
    IF k \in WrapperKinds THEN NumClasses
    ELSE IF k = "ComplexDMKDRegressor" THEN 2 ELSE 1

\* the entries of num_samples: one per class in the wrappers
NumCounters(k) == IF k \in WrapperKinds THEN NumClasses ELSE 1

FeatA(k) == [d |-> 1, v |-> << <<1, 0>>, <<0, 0>> >>]

FeatB(k) ==
    IF k \in ComplexKinds THEN [d |-> 5, v |-> << <<3, 0>>, <<0, 4>> >>]
    ELSE [d |-> 5, v |-> << <<3, 0>>, <<4, 0>> >>]

FeatC(k) ==
    IF k \in ComplexKinds THEN [d |-> 1, v |-> << <<1, 0>>, <<0, 1>> >>]
    ELSE [d |-> 1, v |-> << <<1, 0>>, <<1, 0>> >>]

\* the training samples (x, y) a dataset is drawn from: y is unused by the
\* density models, a class label in the classifiers (NumClasses is a label
\* out of range) and a real target in the regressor
Samples(k) ==
    IF k \in WrapperKinds
    THEN { [x |-> FeatA(k), y |-> 0], [x |-> FeatB(k), y |-> 1],
           [x |-> FeatB(k), y |-> NumClasses] }
    ELSE IF k \in JointKinds
    THEN { [x |-> FeatA(k), y |-> 0], [x |-> FeatB(k), y |-> 1] }
    ELSE IF k = "ComplexDMKDRegressor"
    THEN { [x |-> FeatA(k), y |-> 1], [x |-> FeatB(k), y |-> 2] }
    ELSE { [x |-> FeatA(k), y |-> 0], [x |-> FeatB(k), y |-> 0], [x |-> FeatC(k), y |-> 0] }

(***************************************************************************)
(* The object: self is the record of the fields the methods read and       *)
(* write.  W[i] is weights[0] of estimator i; num_samples is the value the *)
(* attribute self.num_samples holds and samples_var the value of the       *)
(* tf.Variable created by __init__ (the same object until a fit() rebinds  *)
(* the attribute: detached); built is the layers' built flag; traced tells *)
(* that the tf.function call_train has a traced graph; wlog lists the      *)
(* train_step calls and the divisions of a weight in the running fit; err  *)
(* is the exception the method raised, if any.                             *)
(***************************************************************************)
New(k) ==
    [W           |-> [i \in 1..NumEst(k) |-> Zeros(Dim(k))],
     num_samples |-> [i \in 1..NumCounters(k) |-> 0],
     samples_var |-> [i \in 1..NumCounters(k) |-> 0],
     detached    |-> FALSE,
     built       |-> FALSE,
     traced      |-> FALSE,
     wlog        |-> <<>>,
     err         |-> "none"]

\* a slip: assign(inc) where assign_add(inc) is meant
AssignSamples(self, inc) ==
    [self EXCEPT !.samples_var = inc,
                 !.num_samples = IF self.detached THEN @ ELSE inc]

\* self.num_samples.assign_add(inc).  Once fit() has rebound the attribute
\* to a tensor, a call_train graph traced earlier still holds the variable
\* and updates it; the attribute keeps the value it was cast from.
AssignAddSamples(self, inc) ==
    [self EXCEPT !.samples_var = [i \in DOMAIN @ |-> @[i] + inc[i]],
                 !.num_samples = IF self.detached THEN @
                                 ELSE [i \in DOMAIN @ |-> @[i] + inc[i]]]

\* a slip: assign(rho) where assign_add(rho) is meant
AssignAddOverwrites(self, i, rho) == [self EXCEPT !.W[i] = rho]

\* weights[0].assign_add(rho) of estimator i
AssignAdd(self, i, rho) == [self EXCEPT !.W[i] = MatAdd(@, rho)]

\* a slip: the division is skipped when the counter is zero
AssignDivGuarded(self, i, n) ==
    [self EXCEPT !.W[i] = IF n = 0 THEN @ ELSE MatDiv(@, n),
                 !.wlog = Append(@, <<"divide", i>>)]

\* weights[0].assign(weights[0] / n) of estimator i
AssignDiv(self, i, n) ==
    [self EXCEPT !.W[i] = MatDiv(@, n), !.wlog = Append(@, <<"divide", i>>)]

\* `if not self.<layer>.built: self.call(x)`: the first forward pass builds
\* the layers, creating their zero weights
Build(self) == [self EXCEPT !.built = TRUE]

\* the body of call_train has run: it is built and its graph is traced
Traced(self) == [Build(self) EXCEPT !.traced = TRUE]

\* tf.reduce_sum(rho, axis=0) of the batch of outer products psi psi*
SumOuter(psis, n) ==
    MatSum([b \in DOMAIN psis |-> CrossProduct(psis[b], VecConj(psis[b]))], n)

\* QMClassifier.call_train, QMRegressor.call_train
QMClassifier_call_train(self, B) ==
    LET psi == [b \in DOMAIN B |-> Flat(CrossProduct(B[b].x, fm_y(B[b].y)))]
    IN  [rho  |-> SumOuter(psi, 4),
         self |-> AssignAddSamples(Traced(self), <<Len(B)>>)]

\* QMDensity.call_train, ComplexQMDensity.call_train
QMDensity_call_train(self, B) ==
    LET psi == [b \in DOMAIN B |-> B[b].x]
    IN  [rho  |-> SumOuter(psi, 2),
         self |-> AssignAddSamples(Traced(self), <<Len(B)>>)]

\* a slip: the one-hot column is off by one class
one_hot_shifted(y, c) == IF y = c THEN 1 ELSE 0

\* tf.keras.backend.one_hot(y, num_classes): row b is 1 at column y, and all
\* zero when y is out of range
one_hot(y, c) == IF y = c - 1 THEN 1 ELSE 0

\* DMKDClassifier.call_train, ComplexDMKDClassifier.call_train
DMKDClassifier_call_train(self, B) ==
    LET ohy == [b \in DOMAIN B |-> [c \in 1..NumClasses |-> one_hot(B[b].y, c)]]
        num_samples == [c \in 1..NumClasses |-> SeqSum([b \in DOMAIN B |-> ohy[b][c]])]
        rhos == [c \in 1..NumClasses |->
                   MatSum([b \in DOMAIN B |->
                             MatScale(ohy[b][c], CrossProduct(B[b].x, VecConj(B[b].x)))], 2)]
    IN  [rho  |-> rhos,
         self |-> AssignAddSamples(Traced(self), num_samples)]

\* ComplexDMKDRegressor.call_train_de
call_train_de(self, B) ==
    LET psi == [b \in DOMAIN B |-> B[b].x]
    IN  [rho  |-> SumOuter(psi, 2),
         self |-> AssignAddSamples(Traced(self), <<Len(B)>>)]

\* ComplexDMKDRegressor.call_train_reg
call_train_reg(self, B) ==
    LET rho_reg == [b \in DOMAIN B |->
                      MatScale(B[b].y, CrossProduct(B[b].x, VecConj(B[b].x)))]
    IN  [rho  |-> MatSum(rho_reg, 2),
         self |-> AssignAddSamples(Traced(self), <<Len(B)>>)]

\* entry of train_step, noted in the log of the running fit
Enter(self) == [self EXCEPT !.wlog = Append(@, <<"train_step", 0>>)]

\* QMClassifier.train_step, QMRegressor.train_step; known: x.shape[1] is not None
QMClassifier_train_step(self, B, known) ==
    IF known
    THEN LET r == QMClassifier_call_train(Enter(self), B)
         IN  AssignAdd(r.self, 1, r.rho)
    ELSE Enter(self)

\* a slip: the weights are normalised in every train_step
QMDensity_train_step_normalizing(self, B, known) ==
    IF known
    THEN LET r == QMDensity_call_train(Enter(self), B)
             a == AssignAdd(r.self, 1, r.rho)
         IN  AssignDiv(a, 1, a.num_samples[1])
    ELSE Enter(self)

\* QMDensity.train_step, ComplexQMDensity.train_step
QMDensity_train_step(self, B, known) ==
    IF known
    THEN LET r == QMDensity_call_train(Enter(self), B)
         IN  AssignAdd(r.self, 1, r.rho)
    ELSE Enter(self)

RECURSIVE AssignAddAll(_, _, _)
\* for i in range(num_classes): self.qmd[i].weights[0].assign_add(rhos[i])
AssignAddAll(self, rhos, i) ==
    IF i > Len(rhos) THEN self ELSE AssignAddAll(AssignAdd(self, i, rhos[i]), rhos, i + 1)

\* DMKDClassifier.train_step
DMKDClassifier_train_step(self, B, known) ==
    IF known
    THEN LET r == DMKDClassifier_call_train(Enter(self), B)
         IN  AssignAddAll(r.self, r.rho, 1)
    ELSE Enter(self)

\* ComplexDMKDClassifier.train_step: call_train runs before the shape test
ComplexDMKDClassifier_train_step(self, B, known) ==
    LET r == DMKDClassifier_call_train(Enter(self), B)
    IN  IF known THEN AssignAddAll(r.self, r.rho, 1) ELSE r.self

\* ComplexDMKDRegressor.train_step
ComplexDMKDRegressor_train_step(self, B, known) ==
    IF known
    THEN LET de  == call_train_de(Enter(self), B)
             reg == call_train_reg(de.self, B)
         IN  AssignAdd(AssignAdd(reg.self, 1, de.rho), 2, reg.rho)
    ELSE Enter(self)

\* train_step of class k.  retrace: the call_train graph is traced anew (it
\* always is the first time), so that its Python body runs; on a rebound
\* num_samples this raises AttributeError (a tensor has no assign_add).
train_step(k, self, B, known, retrace) ==
    IF self.detached /\ (retrace \/ ~self.traced) /\ known
    THEN [Enter(self) EXCEPT !.err = "AttributeError"]
    ELSE IF k \in JointKinds THEN QMClassifier_train_step(self, B, known)
    ELSE IF k = "DMKDClassifier" THEN DMKDClassifier_train_step(self, B, known)
    ELSE IF k = "ComplexDMKDClassifier" THEN ComplexDMKDClassifier_train_step(self, B, known)
    ELSE IF k = "ComplexDMKDRegressor" THEN ComplexDMKDRegressor_train_step(self, B, known)
    ELSE QMDensity_train_step(self, B, known)

\* a slip: fit() returns without normalising
QMDensity_fit_unnormalized(self) ==
    IF ~self.built THEN [self EXCEPT !.err = "IndexError"] ELSE self

\* the statements of fit() after super().fit() returns, for QMClassifier,
\* QMDensity and QMRegressor; weights[0] of a layer never built is an
\* IndexError
QMDensity_fit(self) ==
    IF ~self.built THEN [self EXCEPT !.err = "IndexError"]
    ELSE AssignDiv(self, 1, self.num_samples[1])

\* self.num_samples = tf.cast(self.num_samples, tf.complex64)
Rebind(self) == [self EXCEPT !.detached = TRUE]

\* ComplexQMDensity.fit after super().fit()
ComplexQMDensity_fit(self) ==
    LET s == Rebind(self)
    IN  IF ~s.built THEN [s EXCEPT !.err = "IndexError"]
        ELSE AssignDiv(s, 1, s.num_samples[1])

RECURSIVE AssignDivAll(_, _)
\* for i in range(num_classes): weights[0].assign(weights[0] / num_samples[i])
AssignDivAll(self, i) ==
    IF i > Len(self.W) THEN self
    ELSE AssignDivAll(AssignDiv(self, i, self.num_samples[i]), i + 1)

\* DMKDClassifier.fit, ComplexDMKDClassifier.fit after super().fit()
DMKDClassifier_fit(self) ==
    IF ~self.built THEN [self EXCEPT !.err = "IndexError"]
    ELSE AssignDivAll(self, 1)

\* a slip: only qmd is divided by the counter
ComplexDMKDRegressor_fit_qmd_only(self) ==
    LET s == Rebind(self)
    IN  IF ~s.built THEN [s EXCEPT !.err = "IndexError"]
        ELSE AssignDiv(AssignDiv(s, 1, s.num_samples[1]), 2, 1)

\* ComplexDMKDRegressor.fit after super().fit()
ComplexDMKDRegressor_fit(self) ==
    LET s == Rebind(self)
    IN  IF ~s.built THEN [s EXCEPT !.err = "IndexError"]
        ELSE AssignDiv(AssignDiv(s, 1, s.num_samples[1]), 2, s.num_samples[1])

\* the normalisation of fit() of class k
fit_normalize(k, self) ==
    IF k \in WrapperKinds THEN DMKDClassifier_fit(self)
    ELSE IF k = "ComplexQMDensity" THEN ComplexQMDensity_fit(self)
    ELSE IF k = "ComplexDMKDRegressor" THEN ComplexDMKDRegressor_fit(self)
    ELSE QMDensity_fit(self)

\* DMKDClassifier.get_rhos, ComplexDMKDClassifier.get_rhos: weights[0] of
\* every estimator, in the order of self.qmd; IndexError on layers never built
get_rhos(self) ==
    IF ~self.built THEN [err |-> "IndexError", val |-> <<>>]
    ELSE [err |-> "none", val |-> [i \in 1..NumClasses |-> self.W[i]]]

(***************************************************************************)
(* The forward pass.  The measurement and decoding layers (layers.py) are  *)
(* modelled from their contracts: the Born rule p = psi* rho psi, the      *)
(* measurement of the joint density matrix, and the decoding of the output *)
(* density matrix into a distribution or into a mean and a variance.       *)
(***************************************************************************)
NumAdd(a, b) ==
    LET c == Common(a.d, b.d)
    IN  Num(c.den, CAdd(CScale(c.fa, a.v), CScale(c.fb, b.v)))

NumMul(a, b) == Num(a.d * b.d, CMul(a.v, b.v))

NumNeg(a) == [d |-> a.d, v |-> CScale(-1, a.v)]

\* a / b for a real b, as float division does it: 0/0 and x/NaN are NaN
NumDiv(a, b) ==
    LET sgn == IF b.v[1] < 0 THEN -1 ELSE 1
    IN  Num(a.d * Abs(b.v[1]), CScale(sgn * b.d, a.v))

RECURSIVE NumSum(_)
NumSum(s) == IF s = <<>> THEN [d |-> 1, v |-> CZero] ELSE NumAdd(Head(s), NumSum(Tail(s)))

\* layers.QMeasureDensity, layers.ComplexQMeasureDensity: psi* rho psi
QMeasureDensity(rho, psi) ==
    Num(psi.d * psi.d * rho.d,
        CSum([i \in DOMAIN psi.v |->
                CSum([j \in DOMAIN psi.v |->
                        CMul(conj(psi.v[i]), CMul(rho.m[i][j], psi.v[j]))])]))

\* layers.QMeasureClassif: the output density matrix rho_y measured at psi_x,
\* rho_y[k][l] = sum_ij conj(psi_i) rho[(i,k),(j,l)] psi_j
QMeasureClassif(rho, psi) ==
    LET at(i, y) == (i - 1) * 2 + y
    IN  [y \in 1..2 |-> [z \in 1..2 |->
           Num(psi.d * psi.d * rho.d,
               CSum([i \in DOMAIN psi.v |->
                       CSum([j \in DOMAIN psi.v |->
                               CMul(conj(psi.v[i]),
                                    CMul(rho.m[at(i, y)][at(j, z)], psi.v[j]))])]))]]

\* layers.DensityMatrix2Dist: the diagonal of rho_y, normalised to sum 1
DensityMatrix2Dist(rho_y) ==
    LET diag == [y \in DOMAIN rho_y |-> rho_y[y][y]]
    IN  [y \in DOMAIN diag |-> NumDiv(diag[y], NumSum(diag))]

\* layers.DensityMatrixRegression: mean and variance of the distribution on
\* the support points 0 and 1
DensityMatrixRegression(rho_y) ==
    LET p == DensityMatrix2Dist(rho_y)
    IN  <<p[2], NumAdd(p[2], NumNeg(NumMul(p[2], p[2])))>>

\* QMClassifier.call
QMClassifier_call(self, psi_x) == DensityMatrix2Dist(QMeasureClassif(self.W[1], psi_x))

\* QMRegressor.call
QMRegressor_call(self, psi_x) == DensityMatrixRegression(QMeasureClassif(self.W[1], psi_x))

\* QMDensity.call, ComplexQMDensity.call
QMDensity_call(self, psi_x) == <<QMeasureDensity(self.W[1], psi_x)>>

\* DMKDClassifier.call, ComplexDMKDClassifier.call: the per-class densities
\* divided by their sum over the classes
DMKDClassifier_call(self, psi_x) ==
    LET probs == [i \in 1..NumClasses |-> QMeasureDensity(self.W[i], psi_x)]
    IN  [i \in 1..NumClasses |-> NumDiv(probs[i], NumSum(probs))]

\* ComplexDMKDRegressor.call
ComplexDMKDRegressor_call(self, psi_x) ==
    <<NumDiv(QMeasureDensity(self.W[2], psi_x), QMeasureDensity(self.W[1], psi_x))>>

\* call of the batch-accumulation class k
call(k, self, psi_x) ==
    IF k = "QMClassifier" THEN QMClassifier_call(self, psi_x)
    ELSE IF k = "QMRegressor" THEN QMRegressor_call(self, psi_x)
    ELSE IF k \in WrapperKinds THEN DMKDClassifier_call(self, psi_x)
    ELSE IF k = "ComplexDMKDRegressor" THEN ComplexDMKDRegressor_call(self, psi_x)
    ELSE QMDensity_call(self, psi_x)

(***************************************************************************)
(* The eigen-parametrised (SGD) models.  Their layers (layers.py) and the  *)
(* optimizer are modelled from their contracts: an estimator holds the     *)
(* eigenvalues val = v/d and the eigenvectors vec (the columns), the       *)
(* effective density matrix is vec diag(val) vec*, and an optimizer step   *)
(* moves both freely and is followed by the projection of the eigenvalues. *)
(***************************************************************************)
SGDKinds ==
    {"QMClassifierSGD", "ComplexQMClassifierSGD", "QMDensitySGD", "DMKDClassifierSGD",
     "ComplexDMKDClassifierSGD", "QMRegressorSGD", "ComplexQMRegressorSGD"}

SGDJointKinds ==
    {"QMClassifierSGD", "ComplexQMClassifierSGD", "QMRegressorSGD", "ComplexQMRegressorSGD"}

SGDWrapperKinds == {"DMKDClassifierSGD", "ComplexDMKDClassifierSGD"}

SGDComplexKinds ==
    {"ComplexQMClassifierSGD", "ComplexDMKDClassifierSGD", "ComplexQMRegressorSGD"}

Kinds == AccumKinds \cup SGDKinds

EigDim(k) == IF k \in SGDJointKinds THEN 4 ELSE 2

EigEst(k) == IF k \in SGDWrapperKinds THEN NumClasses ELSE 1

SGDFeats(k) == IF k \in SGDComplexKinds THEN ComplexFeats ELSE RealFeats

\* the identity: the standard basis as eigenvectors
Identity(n) ==
    [d |-> 1, m |-> [i \in 1..n |-> [j \in 1..n |-> IF i = j THEN <<1, 0>> ELSE CZero]]]

\* the standard basis with its first two vectors rotated to (3/5, 4/5), (-4/5, 3/5)
Rotated(n) ==
    [d |-> 5,
     m |-> [i \in 1..n |-> [j \in 1..n |->
              IF i = 1 /\ j = 1 THEN <<3, 0>>
              ELSE IF i = 2 /\ j = 1 THEN <<4, 0>>
              ELSE IF i = 1 /\ j = 2 THEN <<-4, 0>>
              ELSE IF i = 2 /\ j = 2 THEN <<3, 0>>
              ELSE IF i = j THEN <<5, 0>> ELSE CZero]]]

\* the eigenvector matrices an optimizer step can leave
EigVecs(k) == {Identity(EigDim(k)), Rotated(EigDim(k))}

\* a real vector v/d in lowest terms
RVec(d, v) ==
    LET g == GcdEntries([i \in DOMAIN v |-> <<v[i], 0>>], d)
    IN  IF g = 0 THEN [d |-> 0, v |-> v]
        ELSE [d |-> d \div g, v |-> [i \in DOMAIN v |-> v[i] \div g]]

RVecAdd(a, b) ==
    LET c == Common(a.d, b.d)
    IN  RVec(c.den, [i \in DOMAIN a.v |-> c.fa * a.v[i] + c.fb * b.v[i]])

\* the changes of the eigenvalues one gradient step can make, in halves
Deltas(n) ==
    { [d |-> 2, v |-> [i \in 1..n |-> IF i = 1 THEN a ELSE IF i = 2 THEN b ELSE 0]] :
        a \in {-1, 1}, b \in {-1, 0} }

\* the eigen state at construction: equal eigenvalues on the standard basis
NewEig(k) ==
    [i \in 1..EigEst(k) |->
       [val |-> RVec(EigDim(k), [j \in 1..EigDim(k) |-> 1]), vec |-> Identity(EigDim(k))]]

\* the post-update projection: clip the negative eigenvalues to zero, then
\* divide by the sum
Project(val) ==
    LET clipped == [i \in DOMAIN val.v |-> IF val.v[i] < 0 THEN 0 ELSE val.v[i]]
    IN  IF val.d = 0 THEN val ELSE RVec(SeqSum(clipped), clipped)

\* one optimizer step on an estimator, the projection included
OptimizerUpdate(e, delta, vec) == [val |-> Project(RVecAdd(e.val, delta)), vec |-> vec]

\* the effective density matrix vec diag(val) vec*
EffectiveRho(e) ==
    Mat(e.val.d * e.vec.d * e.vec.d,
        [i \in DOMAIN e.vec.m |-> [j \in DOMAIN e.vec.m |->
            CSum([n \in DOMAIN e.val.v |->
                    CScale(e.val.v[n], CMul(e.vec.m[i][n], conj(e.vec.m[j][n])))])]])

\* layers.QMeasureDensityEig, layers.ComplexQMeasureDensityEig
QMeasureDensityEig(e, psi) == QMeasureDensity(EffectiveRho(e), psi)

\* layers.QMeasureClassifEig, layers.ComplexQMeasureClassifEig
QMeasureClassifEig(e, psi) == QMeasureClassif(EffectiveRho(e), psi)

\* QMClassifierSGD.call, ComplexQMClassifierSGD.call
QMClassifierSGD_call(eg, psi_x) == DensityMatrix2Dist(QMeasureClassifEig(eg[1], psi_x))

\* QMRegressorSGD.call, ComplexQMRegressorSGD.call
QMRegressorSGD_call(eg, psi_x) == DensityMatrixRegression(QMeasureClassifEig(eg[1], psi_x))

\* QMDensitySGD.call (the loss it adds is the framework's state)
QMDensitySGD_call(eg, psi_x) == <<QMeasureDensityEig(eg[1], psi_x)>>

\* DMKDClassifierSGD.call, ComplexDMKDClassifierSGD.call
DMKDClassifierSGD_call(eg, psi_x) ==
    LET probs == [i \in 1..NumClasses |-> QMeasureDensityEig(eg[i], psi_x)]
    IN  [i \in 1..NumClasses |-> NumDiv(probs[i], NumSum(probs))]

\* call of the SGD class k
call_sgd(k, eg, psi_x) ==
    IF k \in {"QMClassifierSGD", "ComplexQMClassifierSGD"} THEN QMClassifierSGD_call(eg, psi_x)
    ELSE IF k \in {"QMRegressorSGD", "ComplexQMRegressorSGD"} THEN QMRegressorSGD_call(eg, psi_x)
    ELSE IF k \in SGDWrapperKinds THEN DMKDClassifierSGD_call(eg, psi_x)
    ELSE QMDensitySGD_call(eg, psi_x)

\* the standard basis with its first two vectors turned to (3/5, 4i/5),
\* (4i/5, 3/5)
RotatedC(n) ==
    [d |-> 5,
     m |-> [i \in 1..n |-> [j \in 1..n |->
              IF i = 1 /\ j = 1 THEN <<3, 0>>
              ELSE IF i = 2 /\ j = 1 THEN <<0, 4>>
              ELSE IF i = 1 /\ j = 2 THEN <<0, 4>>
              ELSE IF i = 2 /\ j = 2 THEN <<3, 0>>
              ELSE IF i = j THEN <<5, 0>> ELSE CZero]]]

\* eigen-decompositions with the eigenvalues in descending order: a pure
\* state, or the even mixture of the first two eigenvectors
Decompositions(k) ==
    [val : { RVec(1, [j \in 1..EigDim(k) |-> IF j = 1 THEN 1 ELSE 0]),
             RVec(2, [j \in 1..EigDim(k) |-> IF j <= 2 THEN 1 ELSE 0]) },
     vec : IF k \in SGDComplexKinds THEN {Identity(EigDim(k)), RotatedC(EigDim(k))}
           ELSE {Identity(EigDim(k)), Rotated(EigDim(k))}]

\* the density matrices set_rho is given: those that decompose exactly
RhoInputs(k) == { EffectiveRho(c) : c \in Decompositions(k) }

\* the layer's set_rho(rho): the eigen-decomposition of rho is installed as
\* the estimator's state (num_eig = 0: no truncation)
set_rho(k, e, rho) == CHOOSE c \in Decompositions(k) : EffectiveRho(c) = rho

\* a slip: every estimator is seeded from the first tensor
set_rhos_first(k, eg, rhos) == [i \in 1..NumClasses |-> set_rho(k, eg[i], rhos[1])]

\* DMKDClassifierSGD.set_rhos, ComplexDMKDClassifierSGD.set_rhos
set_rhos(k, eg, rhos) == [i \in 1..NumClasses |-> set_rho(k, eg[i], rhos[i])]

(***************************************************************************)
(* Configuration: the scalar parameters of each constructor, the           *)
(* attributes __init__ stores them in, and the attributes get_config reads.*)
(***************************************************************************)
\* the arguments a constructor is called with: one value per parameter name
CtorArgs ==
    [input_dim : {2}, dim_x : {2, 4}, dim_y : {2}, num_classes : {NumClasses},
     num_eig : {0, 2}, gamma : {1, 2}, random_state : {0, 1}, train_ffs : {1}]

\* the arguments of the instances that are trained: dim_x = dim_y = 2, the
\* dimension of the feature vectors, and num_eig = 0 (as many as dimensions)
TrainedArgs ==
    [input_dim |-> 2, dim_x |-> 2, dim_y |-> 2, num_classes |-> NumClasses,
     num_eig |-> 0, gamma |-> 1, random_state |-> 0, train_ffs |-> 1]

\* the scalar parameters of __init__ of class k
InitParams(k) ==
    IF k \in {"QMClassifier", "QMRegressor"} THEN {"dim_x", "dim_y"}
    ELSE IF k \in {"QMDensity", "ComplexQMDensity", "ComplexDMKDRegressor"} THEN {"dim_x"}
    ELSE IF k \in WrapperKinds THEN {"dim_x", "num_classes"}
    ELSE IF k = "QMDensitySGD"
    THEN {"input_dim", "dim_x", "num_eig", "gamma", "random_state"}
    ELSE IF k \in SGDWrapperKinds
    THEN {"input_dim", "dim_x", "num_classes", "num_eig", "gamma", "random_state"}
    ELSE IF k = "ComplexQMClassifierSGD"
    THEN {"input_dim", "dim_x", "dim_y", "num_eig", "gamma", "random_state", "train_ffs"}
    ELSE {"input_dim", "dim_x", "dim_y", "num_eig", "gamma", "random_state"}

\* the parameters __init__ of class k stores as attributes of the same name
InitStores(k) ==
    IF k \in {"QMClassifier", "QMRegressor"} THEN {}
    ELSE IF k \in {"QMDensity", "ComplexQMDensity", "ComplexDMKDRegressor"} THEN {"dim_x"}
    ELSE IF k \in WrapperKinds THEN {"dim_x", "num_classes"}
    ELSE IF k = "QMDensitySGD" THEN {"num_eig", "dim_x", "gamma", "random_state"}
    ELSE IF k \in SGDWrapperKinds THEN {"dim_x", "num_classes", "gamma", "random_state"}
    ELSE {"dim_x", "dim_y", "gamma", "random_state"}

\* __init__ of class k called with the arguments a: the attributes it sets,
\* as (name, value) pairs
init(k, a) == { <<n, a[n]>> : n \in InitStores(k) }

\* the attributes get_config of class k reads
ConfigReads(k) ==
    IF k \in {"QMClassifier", "QMRegressor"} THEN {"dim_x", "dim_y"}
    ELSE IF k \in {"QMDensity", "ComplexQMDensity", "ComplexDMKDRegressor"} THEN {}
    ELSE IF k \in WrapperKinds THEN {"dim_x", "num_classes"}
    ELSE IF k = "QMDensitySGD" THEN {"dim_x", "gamma", "random_state"}
    ELSE IF k \in SGDWrapperKinds
    THEN {"dim_x", "num_classes", "num_eig", "gamma", "random_state"}
    ELSE {"dim_x", "dim_y", "num_eig", "gamma", "random_state"}

\* get_config of class k on an instance with attributes at: reading an
\* attribute that was never set raises AttributeError; the base class adds
\* no parameter of the constructor
get_config(k, at) ==
    IF \E n \in ConfigReads(k) : ~\E p \in at : p[1] = n
    THEN [err |-> "AttributeError", items |-> {}]
    ELSE [err |-> "none", items |-> {p \in at : p[1] \in ConfigReads(k)}]

(***************************************************************************)
(* The state machine: one model instance of class kind.                    *)
(***************************************************************************)
VARIABLES
    kind,       \* the class of the instance
    ctor,       \* the arguments its constructor was called with
    self,       \* the fields of a batch-accumulation instance
    eig,        \* the eigen state of an SGD instance, one entry per estimator
    attrs,      \* the scalar attributes set by __init__
    pc,         \* "idle", or "fitting" inside super().fit()
    args,       \* the running fit(): its data and epochs (at least one), whether
                \* the feature dimension is known, and the weights it started from
    epoch,      \* the epoch the training loop is in
    step,       \* the batch of the epoch the training loop is at
    fits,       \* fit() calls so far
    fed,        \* samples handed to train_step so far
    opt_steps,  \* optimizer steps so far
    ret,        \* what the last call() returned
    config      \* what the last get_config() returned

vars ==
    <<kind, ctor, self, eig, attrs, pc, args, epoch, step, fits, fed, opt_steps, ret, config>>

NoRet == [op |-> "none", val |-> <<>>]

NoConfig == [err |-> "unset", items |-> {}]

NoArgs == [data |-> <<>>, epochs |-> 0, known |-> TRUE, start |-> <<>>]

\* an SGD instance has no accumulator fields
NoSelf ==
    [W |-> <<>>, num_samples |-> <<>>, samples_var |-> <<>>, detached |-> FALSE,
     built |-> FALSE, traced |-> FALSE, wlog |-> <<>>, err |-> "none"]

RECURSIVE DatasetsUpTo(_, _)
\* the sequences of non-empty batches over S that hold at most n samples
DatasetsUpTo(S, n) ==
    {<<>>} \cup
    UNION { { <<b>> \o d : b \in [1..l -> S], d \in DatasetsUpTo(S, n - l) } : l \in 1..n }

\* the datasets a fit() of class k can be given, by the samples they hold
Datasets == [k \in AccumKinds |-> DatasetsUpTo(Samples(k), MaxSamples) \ {<<>>}]

Size(d) == SeqSum([b \in DOMAIN d |-> Len(d[b])])

\* the datasets of class k that hold n samples
DatasetsOfSize ==
    [k \in AccumKinds |-> [n \in 1..MaxSamples |-> {d \in Datasets[k] : Size(d) = n}]]

\* the state after k(**a) has been constructed
Constructed(k, a) ==
    /\ kind = k
    /\ ctor = a
    /\ self = IF k \in AccumKinds THEN New(k) ELSE NoSelf
    /\ eig = IF k \in SGDKinds THEN NewEig(k) ELSE <<>>
    /\ attrs = init(k, a)
    /\ pc = "idle"
    /\ args = NoArgs
    /\ epoch = 0
    /\ step = 0
    /\ fits = 0
    /\ fed = 0
    /\ opt_steps = 0
    /\ ret = NoRet
    /\ config = NoConfig

\* fit(data, epochs=e) is called and enters the training loop of super().fit()
FitBegin ==
    /\ kind \in AccumKinds
    /\ pc = "idle"
    /\ fits < MaxFits
    /\ \E n \in 1..MaxSamples, e \in 1..MaxSamples, kn \in BOOLEAN :
         /\ fed + e * n <= MaxSamples
         /\ \E d \in DatasetsOfSize[kind][n] :
               args' = [data |-> d, epochs |-> e, known |-> kn, start |-> self.W]
    /\ pc' = "fitting"
    /\ epoch' = 1
    /\ step' = 1
    /\ self' = [self EXCEPT !.wlog = <<>>, !.err = "none"]
    /\ ret' = NoRet
    /\ UNCHANGED <<kind, ctor, eig, attrs, fits, fed, opt_steps, config>>

\* the training loop hands the next batch to train_step; an exception ends
\* fit() before its normalisation.  Whether tf.function traces call_train
\* anew matters only once num_samples has been rebound.
TrainStep ==
    /\ pc = "fitting"
    /\ epoch <= args.epochs
    /\ \E retrace \in (IF self.detached THEN BOOLEAN ELSE {FALSE}) :
         self' = train_step(kind, self, args.data[step], args.known, retrace)
    /\ fed' = fed + Len(args.data[step])
    /\ IF self'.err # "none"
       THEN /\ pc' = "idle"
            /\ fits' = fits + 1
            /\ args' = NoArgs
            /\ epoch' = 0
            /\ step' = 0
       ELSE /\ UNCHANGED <<pc, fits, args>>
            /\ IF step < Len(args.data)
               THEN step' = step + 1 /\ UNCHANGED epoch
               ELSE step' = 1 /\ epoch' = epoch + 1
    /\ UNCHANGED <<kind, ctor, eig, attrs, opt_steps, ret, config>>

\* super().fit() has returned: fit() normalises the weights and returns
FitEnd ==
    /\ pc = "fitting"
    /\ epoch > args.epochs
    /\ self' = fit_normalize(kind, self)
    /\ pc' = "idle"
    /\ fits' = fits + 1
    /\ args' = NoArgs
    /\ epoch' = 0
    /\ step' = 0
    /\ UNCHANGED <<kind, ctor, eig, attrs, fed, opt_steps, ret, config>>

\* a slip: the forward pass counts the sample it is given
CallCounting ==
    /\ kind \in AccumKinds
    /\ pc = "idle"
    /\ \E psi_x \in Feats(kind) : ret' = [op |-> "call", val |-> call(kind, self, psi_x)]
    /\ self' = AssignAddSamples(Build(self), [i \in 1..NumCounters(kind) |-> 1])
    /\ UNCHANGED <<kind, ctor, eig, attrs, pc, args, epoch, step, fits, fed, opt_steps, config>>

\* predict / call of a batch-accumulation model on an input with feature
\* vector psi_x
Call ==
    /\ kind \in AccumKinds
    /\ pc = "idle"
    /\ \E psi_x \in Feats(kind) : ret' = [op |-> "call", val |-> call(kind, self, psi_x)]
    /\ self' = Build(self)
    /\ UNCHANGED <<kind, ctor, eig, attrs, pc, args, epoch, step, fits, fed, opt_steps, config>>

\* predict / call of an SGD model
CallSGD ==
    /\ kind \in SGDKinds
    /\ \E psi_x \in SGDFeats(kind) : ret' = [op |-> "call", val |-> call_sgd(kind, eig, psi_x)]
    /\ UNCHANGED <<kind, ctor, self, eig, attrs, pc, args, epoch, step, fits, fed,
                   opt_steps, config>>

\* one optimizer step of the training of an SGD model
OptimizerStep ==
    /\ kind \in SGDKinds
    /\ opt_steps < MaxOptSteps
    /\ \E delta \in Deltas(EigDim(kind)), vec \in EigVecs(kind) :
         eig' = [i \in DOMAIN eig |-> OptimizerUpdate(eig[i], delta, vec)]
    /\ opt_steps' = opt_steps + 1
    /\ ret' = NoRet
    /\ UNCHANGED <<kind, ctor, self, attrs, pc, args, epoch, step, fits, fed, config>>

\* get_rhos() of a multi-class wrapper
GetRhos ==
    /\ kind \in WrapperKinds
    /\ pc = "idle"
    /\ ret' = LET r == get_rhos(self)
              IN  IF r.err # "none" THEN [op |-> r.err, val |-> <<>>]
                  ELSE [op |-> "get_rhos", val |-> r.val]
    /\ UNCHANGED <<kind, ctor, self, eig, attrs, pc, args, epoch, step, fits, fed,
                   opt_steps, config>>

\* set_rhos(rhos) of an SGD multi-class wrapper, one tensor per class
SetRhos ==
    /\ kind \in SGDWrapperKinds
    /\ \E rhos \in [1..NumClasses -> RhoInputs(kind)] :
         /\ eig' = set_rhos(kind, eig, rhos)
         /\ ret' = [op |-> "set_rhos", val |-> rhos]
    /\ UNCHANGED <<kind, ctor, self, attrs, pc, args, epoch, step, fits, fed,
                   opt_steps, config>>

\* get_config()
GetConfig ==
    /\ pc = "idle"
    /\ config' = get_config(kind, attrs)
    /\ UNCHANGED <<kind, ctor, self, eig, attrs, pc, args, epoch, step, fits, fed,
                   opt_steps, ret>>

(***************************************************************************)
(* Specifications.  Spec: a model is constructed; a batch-accumulation     *)
(* model is then fitted and queried, an SGD model trained by optimizer     *)
(* steps and queried.  SpecConfig: a model of any class is constructed     *)
(* with any arguments and asked for its configuration.                     *)
(***************************************************************************)
Init == \E k \in Kinds : Constructed(k, TrainedArgs)

Next == FitBegin \/ TrainStep \/ FitEnd \/ Call \/ OptimizerStep \/ CallSGD \/ GetRhos \/ SetRhos

Spec == Init /\ [][Next]_vars

InitConfig == \E k \in Kinds, a \in CtorArgs : Constructed(k, a)

NextConfig == GetConfig

SpecConfig == InitConfig /\ [][NextConfig]_vars

(***************************************************************************)
(* Properties.                                                             *)
(***************************************************************************)
\* the batches of at most n samples over S
BatchesUpTo(S, n) == UNION { [1..l -> S] : l \in 1..n }

\* the samples of a dataset, batch after batch
AllSamples(d) == Flatten(d)

\* the feature vector a sample contributes: psi_x (x) psi_y in the joint
\* models, psi_x otherwise
Psi(k, s) == IF k \in JointKinds THEN Flat(CrossProduct(s.x, fm_y(s.y))) ELSE s.x

\* (1/N) sum_n psi_n psi_n* over the N samples of a dataset
MeanOuter(k, d) ==
    LET ss == AllSamples(d)
    IN  MatDiv(SumOuter([n \in DOMAIN ss |-> Psi(k, ss[n])], Dim(k)), Len(ss))

\* the classes with one weight tensor and one scalar counter
SingleKinds == {"QMClassifier", "QMDensity", "ComplexQMDensity", "QMRegressor"}

\* a train_step of the running fit has completed
TrainStepDone == pc = "fitting" /\ pc' = "fitting" /\ self'.err = "none"

\* fit() has run its normalisation and returned
FitReturns == pc = "fitting" /\ pc' = "idle" /\ self'.err = "none"

\* the last fit() has returned without an exception, and none runs
Returned == kind \in AccumKinds /\ pc = "idle" /\ fits >= 1 /\ self.err = "none"

\* C1: batch order does not matter: whenever train_step has accumulated a
\* batch B1 and the training loop holds a next batch B2 (any two batches,
\* over the datasets of fit), train_step on B2 leaves the same weights and
\* the same sample counter as train_step on B2 first and on B1 second would
\* have left
C1_OrderIndependent ==
    [][(TrainStepDone /\ epoch' <= args.epochs) =>
         LET B1 == args.data[step]
             B2 == args.data[step']
             a  == train_step(kind, self', B2, args.known, FALSE)
             b  == train_step(kind, train_step(kind, self, B2, args.known, FALSE),
                              B1, args.known, FALSE)
         IN  /\ a.W = b.W
             /\ a.num_samples = b.num_samples
             /\ a.samples_var = b.samples_var]_vars

\* two different batches have been accumulated, one after the other
C1_Witness ==
    /\ kind \in AccumKinds
    /\ pc = "fitting"
    /\ args.known
    /\ Len(args.data) = 2
    /\ args.data[1] # args.data[2]
    /\ epoch = 2
    /\ \E i \in DOMAIN self.W : self.W[i] # Zeros(Dim(kind))

\* C2: the first fit() of a model with one weight tensor, over a dataset of
\* N >= 1 feature vectors of known dimension in any batches and for any
\* number of epochs e, leaves W = (1/N) sum_n psi_n psi_n* and has counted
\* e * N samples
C2_FitIsMeanOuter ==
    [][(FitReturns /\ fits = 0 /\ args.known /\ kind \in SingleKinds) =>
         /\ self'.W[1] = MeanOuter(kind, args.data)
         /\ self'.num_samples[1] = args.epochs * Size(args.data)]_vars

\* a first fit() over three samples has returned
C2_Witness ==
    /\ Returned
    /\ kind \in SingleKinds
    /\ fits = 1
    /\ self.num_samples[1] = MaxSamples
    /\ IsFinite(self.W[1])

\* the places of the log entries of one kind
Places(log, what) == {j \in DOMAIN log : log[j][1] = what}

\* C3: inside the training loop of fit() no weight has been divided, and
\* when fit() has returned every weight tensor has been divided exactly
\* once, after the last train_step
C3_NormalizedOnceAtEnd ==
    kind \in AccumKinds =>
      /\ pc = "fitting" => Places(self.wlog, "divide") = {}
      /\ Returned =>
           /\ \A i \in 1..NumEst(kind) :
                Cardinality({j \in Places(self.wlog, "divide") : self.wlog[j][2] = i}) = 1
           /\ \A j \in Places(self.wlog, "train_step"), l \in Places(self.wlog, "divide") :
                j < l

\* a fit() of two or more train_steps has returned
C3_Witness ==
    /\ Returned
    /\ Cardinality(Places(self.wlog, "train_step")) >= 2
    /\ Places(self.wlog, "divide") # {}

\* the sum of the diagonal entries, as a complex numerator over A.d
Trace(A) == CSum([i \in DOMAIN A.m |-> A.m[i][i]])

IsHermitian(A) == \A i, j \in DOMAIN A.m : A.m[i][j] = conj(A.m[j][i])

\* M without row i and column j
Minor(M, i, j) ==
    [r \in 1..(Len(M) - 1) |-> [c \in 1..(Len(M) - 1) |->
        M[IF r < i THEN r ELSE r + 1][IF c < j THEN c ELSE c + 1]]]

RECURSIVE Det(_)
\* the determinant, expanded along the first row
Det(M) ==
    IF Len(M) = 0 THEN <<1, 0>>
    ELSE CSum([j \in 1..Len(M) |->
                 CScale(IF j % 2 = 1 THEN 1 ELSE -1, CMul(M[1][j], Det(Minor(M, 1, j))))])

\* the elements of a set of numbers, ascending
Ascending(S) == [n \in 1..Cardinality(S) |-> CHOOSE x \in S : Cardinality({y \in S : y < x}) = n - 1]

\* the principal submatrix of M on the rows and columns in S
Principal(M, S) == LET ix == Ascending(S) IN [r \in DOMAIN ix |-> [c \in DOMAIN ix |-> M[ix[r]][ix[c]]]]

\* a Hermitian matrix is positive semi-definite iff all its principal minors
\* are non-negative; the positive denominator does not change their signs
IsPSD(A) ==
    /\ A.d > 0
    /\ \A S \in SUBSET (DOMAIN A.m) : LET m == Det(Principal(A.m, S)) IN m[1] >= 0 /\ m[2] = 0

IsDensityMatrix(A) == A.d > 0 /\ Trace(A) = <<A.d, 0>> /\ IsHermitian(A) /\ IsPSD(A)

UnitNorm(a) == CSum([i \in DOMAIN a.v |-> CMul(a.v[i], conj(a.v[i]))]) = <<a.d * a.d, 0>>

\* the entry of num_samples that fit() divides weights[0] of estimator i by
Divisor(k, s, i) == IF k \in WrapperKinds THEN s.num_samples[i] ELSE s.num_samples[1]

\* the estimators of a density: all but qmr, which accumulates y psi psi*
DensityEstimators(k) == IF k = "ComplexDMKDRegressor" THEN {1} ELSE 1..NumEst(k)

\* C4: the first fit() of a model over samples of known dimension and unit
\* norm leaves every density estimator that received a sample with a valid
\* density matrix: trace 1, Hermitian, positive semi-definite
C4_FitLeavesDensityMatrix ==
    [][(FitReturns /\ fits = 0 /\ args.known
          /\ \A n \in DOMAIN AllSamples(args.data) : UnitNorm(Psi(kind, AllSamples(args.data)[n]))) =>
         \A i \in DensityEstimators(kind) :
            Divisor(kind, self', i) > 0 => IsDensityMatrix(self'.W[i])]_vars

\* C5: no fit() divides a contribution an earlier fit() has divided already:
\* when the second fit() of an instance normalises, the weights the fit
\* started from held nothing
C5_NeverNormalizedTwice ==
    [][(FitReturns /\ fits = 1) =>
         \A i \in DOMAIN args.start :
            \A r, c \in DOMAIN args.start[i].m : args.start[i].m[r][c] = CZero]_vars

\* C6: a fit() that has ended with a counter at zero has raised, or has left
\* the weights divided by that counter non-finite (NaN); it never returns
\* with a finite tensor there
C6_ZeroCountIsSignalled ==
    (kind \in AccumKinds /\ pc = "idle" /\ fits >= 1) =>
      \A i \in 1..NumEst(kind) :
         Divisor(kind, self, i) = 0 => self.err # "none" \/ ~IsFinite(self.W[i])

\* a fit() has returned with a counter at zero and NaN weights
C6_Witness ==
    /\ Returned
    /\ \E i \in 1..NumEst(kind) : Divisor(kind, self, i) = 0 /\ IsNaN(self.W[i])

AllWrapperKinds == WrapperKinds \cup SGDWrapperKinds

\* C7: the posterior a multi-class wrapper returns sums to 1 over the classes
C7_PosteriorSumsToOne ==
    (kind \in AllWrapperKinds /\ ret.op = "call") => NumSum(ret.val) = Num(1, <<1, 0>>)

\* a transition that is a call: nothing but a forward pass has happened
IsCall ==
    /\ pc = "idle"
    /\ pc' = "idle"
    /\ fits' = fits
    /\ opt_steps' = opt_steps
    /\ ret'.op = "call"

\* C8: call leaves the weights, the eigenvalues and eigenvectors and the
\* sample counter as they were
C8_CallIsPure ==
    [][IsCall =>
         /\ self'.W = self.W
         /\ self'.num_samples = self.num_samples
         /\ self'.samples_var = self.samples_var
         /\ eig' = eig]_vars

\* a fitted model, or an SGD model after an optimizer step, has been called
C8_Witness ==
    /\ ret.op = "call"
    /\ \/ kind \in AccumKinds /\ fits >= 1 /\ self.num_samples[1] > 0
             /\ self.W[1] # Zeros(Dim(kind))
       \/ kind \in SGDKinds /\ opt_steps >= 1

\* C9: after any number of optimizer steps the stored eigenvalues are
\* non-negative and sum to 1
C9_EigenvaluesValid ==
    kind \in SGDKinds =>
      \A i \in DOMAIN eig :
         /\ eig[i].val.d > 0
         /\ \A n \in DOMAIN eig[i].val.v : eig[i].val.v[n] >= 0
         /\ SeqSum(eig[i].val.v) = eig[i].val.d

\* C10: get_config() of a constructed instance returns without raising, and
\* what it returns holds every parameter of the constructor with the value
\* the constructor was given
C10_ConfigReconstructs ==
    config.err # "unset" =>
      /\ config.err = "none"
      /\ \A n \in InitParams(kind) : <<n, ctor[n]>> \in config.items

\* the SGD wrapper that is seeded from a batch-accumulation wrapper
SGDOf(k) == IF k = "DMKDClassifier" THEN "DMKDClassifierSGD" ELSE "ComplexDMKDClassifierSGD"

\* C11: get_rhos() returns the weights of class i as element i; set_rhos(rhos)
\* leaves the estimator of class i with the density matrix rhos[i]; and
\* set_rhos(get_rhos()) leaves the SGD estimator of every class with the
\* accumulated density matrix of the same class
C11_RhosKeepClassOrder ==
    /\ (kind \in WrapperKinds /\ ret.op = "get_rhos") =>
          /\ \A i \in 1..NumClasses : ret.val[i] = self.W[i]
          /\ (\A i \in 1..NumClasses : ret.val[i] \in RhoInputs(SGDOf(kind))) =>
                LET seeded == set_rhos(SGDOf(kind), NewEig(SGDOf(kind)), ret.val)
                IN  \A i \in 1..NumClasses : EffectiveRho(seeded[i]) = self.W[i]
    /\ (kind \in SGDWrapperKinds /\ ret.op = "set_rhos") =>
          \A i \in 1..NumClasses : EffectiveRho(eig[i]) = ret.val[i]

\* get_rhos() has returned two different density matrices that decompose
C11_Witness ==
    /\ kind \in WrapperKinds
    /\ ret.op = "get_rhos"
    /\ ret.val[1] # ret.val[2]
    /\ \A i \in 1..NumClasses : ret.val[i] \in RhoInputs(SGDOf(kind))

\* the samples of batch B that count for counter c: those labelled with
\* class c - 1 in the wrappers, all of them otherwise
Counted(k, B, c) ==
    IF k \in WrapperKinds THEN Cardinality({b \in DOMAIN B : B[b].y = c - 1}) ELSE Len(B)

\* C12: a train_step over a batch of known feature dimension adds to the
\* sample counter the number of samples of the batch (per class in the
\* wrappers), both in the variable and in what self.num_samples holds
C12_CountsBatchSize ==
    [][(TrainStepDone /\ args.known) =>
         \A c \in 1..NumCounters(kind) :
            /\ self'.samples_var[c] = self.samples_var[c] + Counted(kind, args.data[step], c)
            /\ self'.num_samples[c] = self.num_samples[c] + Counted(kind, args.data[step], c)]_vars

\* fit() is called
FitStarts == pc = "idle" /\ pc' = "fitting"

\* the training loop of fit() has ended and fit() normalises the weights
FitNormalizes == pc = "fitting" /\ pc' = "idle" /\ epoch > args.epochs

\* what one step may do to the sample counter
CounterStep ==
    /\ (FitStarts /\ fits = 0) =>
          \A c \in 1..NumCounters(kind) :
             self.num_samples[c] = 0 /\ self.samples_var[c] = 0
    /\ \A c \in 1..NumCounters(kind) :
          /\ self'.num_samples[c] >= self.num_samples[c]
          /\ self'.samples_var[c] >= self.samples_var[c]
    /\ FitStarts =>
          /\ self'.num_samples = self.num_samples
          /\ self'.samples_var = self.samples_var
    /\ FitNormalizes =>
          /\ self'.num_samples = self.num_samples
          /\ self'.samples_var = self.samples_var
          /\ self'.detached = self.detached

\* C13: the sample counter is 0 when the first fit() starts, no step of
\* train_step, fit or call decreases it, the start of a fit() does not reset
\* it, and the normalisation of fit() only reads it: it leaves its value
\* and leaves self.num_samples the variable it was
C13_CounterOnlyGrows == [][(kind \in AccumKinds) => CounterStep]_vars

\* the training loop hands a batch to train_step
TrainStepRuns == pc = "fitting" /\ epoch <= args.epochs

\* C14: a train_step over a batch whose feature dimension is unknown raises
\* nothing and leaves the weights and the sample counter as they were
C14_UnknownShapeSkips ==
    [][(TrainStepRuns /\ ~args.known) =>
         /\ self'.err = "none"
         /\ self'.W = self.W
         /\ self'.num_samples = self.num_samples
         /\ self'.samples_var = self.samples_var]_vars

\* the samples of a sequence that are labelled with class c - 1
OfClass(ss, c) == SelectSeq(ss, LAMBDA sm : sm.y = c - 1)

\* the sum of the outer products psi psi* of a sequence of samples
OuterSum(ss) == SumOuter([n \in DOMAIN ss |-> ss[n].x], 2)

\* C15: a train_step of a wrapper over a batch of known feature dimension
\* adds to the accumulator of every class c the outer products of the
\* samples of the batch labelled c, and their number to counter c, and
\* nothing else; in the first fit() the accumulator of class c is then the
\* sum over the samples labelled c handed over so far, and counter c their
\* number
C15_RoutedByClass ==
    [][(TrainStepDone /\ args.known /\ kind \in WrapperKinds) =>
         \A c \in 1..NumClasses :
            LET B    == OfClass(args.data[step], c)
                all  == OfClass(AllSamples(args.data), c)
                done == OfClass(AllSamples(SubSeq(args.data, 1, step)), c)
            IN  /\ self'.W[c] = MatAdd(self.W[c], OuterSum(B))
                /\ self'.samples_var[c] = self.samples_var[c] + Len(B)
                /\ fits = 0 =>
                      /\ self'.W[c] = MatAdd(MatScale(epoch - 1, OuterSum(all)), OuterSum(done))
                      /\ self'.num_samples[c] = (epoch - 1) * Len(all) + Len(done)]_vars

\* a wrapper has accumulated samples of two classes, more in one than in
\* the other
C15_Witness ==
    /\ kind \in WrapperKinds
    /\ pc = "fitting"
    /\ args.known
    /\ self.num_samples[1] >= 1
    /\ self.num_samples[2] > self.num_samples[1]
    /\ self.W[1] # Zeros(2)
    /\ self.W[2] # self.W[1]

RECURSIVE OnePass(_, _, _, _, _)
\* one pass of the training loop over the batches i.. of a dataset
OnePass(k, s, data, known, i) ==
    IF i > Len(data) THEN s
    ELSE OnePass(k, train_step(k, s, data[i], known, FALSE), data, known, i + 1)

\* a fresh instance of class k, its layers built
Fresh(k) == Build(New(k))

\* C16: when the first fit() of a model has passed e times over a dataset,
\* it has accumulated e times the weights and e times the count of one
\* pass, and its normalisation leaves the weights that a fit() of one pass
\* over the same dataset leaves
C16_EpochsDoNotMatter ==
    [][(FitReturns /\ fits = 0) =>
         \A one \in {OnePass(kind, Fresh(kind), args.data, args.known, 1)} :
            /\ \A i \in DOMAIN self.W : self.W[i] = MatScale(args.epochs, one.W[i])
            /\ \A c \in DOMAIN self.num_samples :
                  self.num_samples[c] = args.epochs * one.num_samples[c]
            /\ self'.W = fit_normalize(kind, one).W]_vars

\* the training loop of a first fit() has passed more than once over a
\* dataset of known feature dimension
C16_Witness ==
    /\ kind \in AccumKinds
    /\ pc = "fitting"
    /\ fits = 0
    /\ args.known
    /\ args.epochs >= 2
    /\ epoch > args.epochs
    /\ self.W[1] # Zeros(Dim(kind))

\* |<psi, phi>|^2
Overlap(psi, phi) == QMeasureDensity(CrossProduct(phi, VecConj(phi)), psi)

\* y as a scalar
Real(y) == Num(1, <<y, 0>>)

\* (sum_n y_n |<psi, psi_n>|^2) / (sum_n |<psi, psi_n>|^2) over the samples ss
KernelRatio(psi, ss) ==
    NumDiv(NumSum([n \in DOMAIN ss |-> NumMul(Real(ss[n].y), Overlap(psi, ss[n].x))]),
           NumSum([n \in DOMAIN ss |-> Overlap(psi, ss[n].x)]))

\* C17: when fit() of ComplexDMKDRegressor has normalised qmd and qmr, the
\* prediction for every input is the ratio of the two accumulations as they
\* were before the division, whatever the counter; after a first fit() over
\* samples of known feature dimension it is
\* (sum_n y_n |<psi, psi_n>|^2) / (sum_n |<psi, psi_n>|^2)
C17_RatioIgnoresCounter ==
    [][(FitReturns /\ kind = "ComplexDMKDRegressor") =>
         \A psi \in Feats(kind) :
            /\ ComplexDMKDRegressor_call(self', psi)
                  = <<NumDiv(QMeasureDensity(self.W[2], psi), QMeasureDensity(self.W[1], psi))>>
            /\ (fits = 0 /\ args.known) =>
                  ComplexDMKDRegressor_call(self', psi)
                    = <<KernelRatio(psi, AllSamples(args.data))>>]_vars

\* a fitted ComplexDMKDRegressor whose two estimators differ has returned a
\* finite prediction
C17_Witness ==
    /\ kind = "ComplexDMKDRegressor"
    /\ Returned
    /\ self.num_samples[1] >= 4
    /\ IsFinite(self.W[1])
    /\ self.W[2] # self.W[1]
    /\ ret.op = "call"
    /\ ret.val[1].d # 0

====
